---- MODULE Spec2Model ----
(***************************************************************************)
(* Wrapper.h: a C++/CLI facade (public ref class Wrapper) with five static *)
(* methods that pass straight through to the C runtime: time(0), srand(s), *)
(* rand() and RAND_MAX.                                                    *)
(*                                                                         *)
(* The facade holds no state of its own.  The state it acts on is the C    *)
(* runtime's: the pseudo-random generator state and the platform clock.    *)
(* The runtime is the one a `ref class` builds against (Microsoft's): its  *)
(* rand() is the linear congruential generator                             *)
(*     state = state * 214013 + 2531011 (mod 2^32)                         *)
(*     return (state >> 16) & 0x7fff                                       *)
(* with RAND_MAX = 0x7fff, the state 1 at process start (ISO C: rand()     *)
(* without srand() behaves as after srand(1)), time_t of 64 bits and       *)
(* time() returning (time_t)(-1) when the calendar time is unavailable.    *)
(* The generator state is held as the one process-wide state of ISO C's    *)
(* srand/rand, read and written by rand() without a lock; the clock is the *)
(* wall clock, which may be set back.                                      *)
(*                                                                         *)
(* TLC's integers are 32 bits wide, so a value wider than int (the         *)
(* unsigned generator state, a seed, a 64-bit time) is held as a pair      *)
(* <<hi, lo>> standing for hi * 2^16 + lo with 0 <= lo < 2^16.  A signed   *)
(* 32-bit result (TimeCast, Rand, RandMax) is a plain integer.             *)
(***************************************************************************)
EXTENDS Integers, Sequences, FiniteSets, TLC

\* ------------------------------------------------------------ bounds
\* Draws observed after one seeding (Rand is disabled beyond it).
MaxDraws == 3
\* Process runs after the first one.
MaxRuns == 1
\* SRand and Rand calls that two concurrent threads make between them.
MaxCalls == 4
\* The caller's threads.
Threads == {1, 2}

\* ------------------------------------------------------------ wide values
\* 2^16: the weight of the high part of a wide value.
W16 == 2^16
Wide(hi, lo) == <<hi, lo>>
Hi(n) == n[1]
Lo(n) == n[2]
\* A plain (32-bit) integer widened: hi * 2^16 + lo = i, floor division.
Widen(i) == <<i \div W16, i % W16>>
\* n < m for two wide values.
Less(n, m) == Hi(n) < Hi(m) \/ (Hi(n) = Hi(m) /\ Lo(n) < Lo(m))
LessEq(n, m) == n = m \/ Less(n, m)

\* Seeds the caller passes to SRand: unsigned 32-bit, 0, 1, 42, 65536,
\* 2^31 and 2^32 - 1.
Seeds == { Wide(0, 0), Wide(0, 1), Wide(0, 42), Wide(1, 0),
           Wide(32768, 0), Wide(65535, 65535) }
\* The key of draws made before any SRand of the process run.
NoSeed == Wide(-1, 0)
Keys == Seeds \cup {NoSeed}
\* What an observer of the draws watches: the draws that follow one seeding
\* (SRand(s) for one s, or the process start), or the draws that follow
\* either of the process start and SRand(1).
Watches == { {k} : k \in Keys } \cup { {NoSeed, Wide(0, 1)} }

\* Readings of the platform clock, seconds since the epoch: 0, 1700000000,
\* 2^31 - 1, 2^31, 2^32 - 1, 2^32, 2^32 + 5.
Times == { Wide(0, 0), Wide(25939, 61696), Wide(32767, 65535),
           Wide(32768, 0), Wide(65535, 65535), Wide(65536, 0),
           Wide(65536, 5) }

VARIABLES
    holdrand,     \* the runtime's generator state, unsigned 32-bit, wide
    now,          \* the platform clock's reading, wide
    clockOk,      \* whether the calendar time is available
    lastOp,       \* the facade operation that returned last ("none" at start)
    lastRet,      \* its return value: wide for Time, plain for the others
    outcome,      \* how the last operation ended: "returned" or "error"
    \* history variables: what a caller has observed
    seeded,       \* SRand was called in this process run
    seed,         \* the seed of the last SRand (NoSeed before any)
    draws,        \* values Rand returned since the last SRand / process start
    watch,        \* the seedings the observer watches, fixed from the start
    seenRun,      \* the draws first observed after a watched seeding, by
                  \* position, in this process run
    seenAll,      \* the same, over all process runs
    runs,         \* process runs started after the first
    quiet,        \* Time, TimeCast or RandMax was called since the last
                  \* SRand / process start
    randMaxSeen,  \* the values RandMax returned in this process run
    genBefore,    \* the generator state when the last operation was entered
    callRead,     \* what time(0) returned to the last operation, when it was
                  \* Time or TimeCast
    okAtCall,     \* whether the clock was available to it
    hasLast,      \* Time() was called in this process run
    lastTime,     \* what the latest Time() call returned
    hasPrev,      \* Time() was called before that call, in this process run
    prevTime,     \* what that earlier Time() call returned
    calm,         \* the clock was available at the latest Time() call and
                  \* has not been set back since
    steady,       \* the clock was available at the latest two Time() calls
                  \* and was not set back between them
    \* two threads of the caller in SRand and Rand
    serialized,   \* the caller holds a lock of its own around every call
    pc,           \* per thread: "idle", or where it is inside rand():
                  \* "loaded" (state read), "stored" (new state written)
    reg,          \* per thread: the generator state it holds in a register
    calls,        \* SRand and Rand calls the threads have completed
    left,         \* the generator state when the last such call completed
    leftBefore,   \* `left` as it was before the last Rand() completed
    acted         \* the generator state that Rand() call had read

vars == << holdrand, now, clockOk, lastOp, lastRet, outcome, seeded, seed,
           draws, watch, seenRun, seenAll, runs, quiet, randMaxSeen,
           genBefore, callRead, okAtCall, hasLast, lastTime, hasPrev,
           prevTime, calm, steady, serialized, pc, reg, calls, left,
           leftBefore, acted >>

genVars == << seeded, seed, draws, watch, seenRun, seenAll >>
timeVars == << hasLast, lastTime, hasPrev, prevTime, calm, steady >>
clockVars == << now, clockOk >>
threadVars == << serialized, pc, reg, calls, left, leftBefore, acted >>

\* ------------------------------------------------------------ the C runtime
\* <stdlib.h>: RAND_MAX, 0x7fff.
RAND_MAX == 32767

\* srand adding the seed to the state it finds, a mutant of srand.
srand_accumulating(s) ==
    LET l == Lo(s) + Lo(holdrand)
    IN  Wide((Hi(s) + Hi(holdrand) + (l \div W16)) % W16, l % W16)

\* srand seeding only a generator that was never seeded, a mutant of srand.
srand_once(s) == IF seeded THEN holdrand ELSE Wide(Hi(s) % W16, Lo(s))

\* srand(s): the generator state becomes the seed, an unsigned int.
srand(s) == Wide(Hi(s) % W16, Lo(s))

\* The state rand() stores: state * 214013 + 2531011 (mod 2^32), with
\* 214013 = 3 * 2^16 + 17405 and 2531011 = 38 * 2^16 + 40643.
rand_state(st) ==
    LET p == Lo(st) * 17405 + 40643
    IN  Wide((Hi(st) * 17405 + Lo(st) * 3 + 38 + (p \div W16)) % W16, p % W16)

\* rand returning state >> 16 without the mask, a mutant of rand_value.
rand_value_unmasked(st) == Hi(st)

\* The value rand() returns from the state it stored: (state >> 16) & RAND_MAX.
rand_value(st) == Hi(st) % (RAND_MAX + 1)

\* A runtime starting the generator at 0, a mutant of crt_initial_state.
crt_initial_state_zero == Wide(0, 0)

\* The generator state at process start: 1, the state srand(1) sets.
crt_initial_state == Wide(0, 1)

\* (time_t)(-1), what time() returns when the calendar time is unavailable.
TimeFailure == Wide(-1, W16 - 1)

\* time(0).
time0 == IF clockOk THEN now ELSE TimeFailure

\* time_t (64-bit) converted to long long: the same value.
ToLongLong(t) == t

\* time_t (64-bit) converted to int: the low 32 bits, two's complement.
ToInt(t) ==
    LET h == Hi(t) % W16
    IN  IF h >= 32768 THEN (h - W16) * W16 + Lo(t) ELSE h * W16 + Lo(t)

\* Time with a return type of 32 bits (long), a mutant of TimeResult.
TimeResult_narrow == Widen(ToInt(time0))

\* What Time returns: return time(0), as long long.
TimeResult == ToLongLong(time0)

\* TimeCast clamping at INT_MAX instead of wrapping, a mutant of
\* TimeCastResult.
TimeCastResult_saturating ==
    IF Hi(time0) >= 32768 THEN 32767 * W16 + (W16 - 1) ELSE ToInt(time0)

\* TimeCast turning the failure of time(0) into 0, a mutant of TimeCastResult.
TimeCastResult_zero_on_failure == IF clockOk THEN ToInt(time0) ELSE 0

\* What TimeCast returns: return time(0), as int.
TimeCastResult == ToInt(time0)

\* RandMax returning a draw (the body of Rand), a mutant of RandMaxResult.
RandMaxResult_draw == rand_value(rand_state(holdrand))

\* What RandMax returns.
RandMaxResult == RAND_MAX

\* ------------------------------------------------------------ history
\* `first` extended by the newest draw when `ds` is longer than it: the first
\* observation of every position is kept.
Record(first, ds) ==
    IF Len(ds) > Len(first) THEN Append(first, ds[Len(ds)]) ELSE first

\* Two sequences agree wherever both are defined.
Agree(a, b) ==
    \A i \in 1..Len(a) : i <= Len(b) => a[i] = b[i]

\* The seeding the current draws follow.
Key == IF seeded THEN seed ELSE NoSeed

\* ------------------------------------------------------------ start
Start ==
    /\ holdrand = crt_initial_state
    /\ now = Wide(25939, 61696)
    /\ clockOk = TRUE
    /\ lastOp = "none"
    /\ lastRet = 0
    /\ outcome = "returned"
    /\ seeded = FALSE
    /\ seed = NoSeed
    /\ draws = << >>
    /\ seenRun = << >>
    /\ seenAll = << >>
    /\ runs = 0
    /\ quiet = FALSE
    /\ randMaxSeen = {}
    /\ genBefore = crt_initial_state
    /\ callRead = Wide(0, 0)
    /\ okAtCall = TRUE
    /\ hasLast = FALSE
    /\ lastTime = Wide(0, 0)
    /\ hasPrev = FALSE
    /\ prevTime = Wide(0, 0)
    /\ calm = FALSE
    /\ steady = FALSE
    /\ pc = [t \in Threads |-> "idle"]
    /\ reg = [t \in Threads |-> crt_initial_state]
    /\ calls = 0
    /\ left = crt_initial_state
    /\ leftBefore = crt_initial_state
    /\ acted = crt_initial_state

\* One caller: every call returns before the next is made.
Init ==
    /\ Start
    /\ watch \in Watches
    /\ serialized = TRUE

\* ------------------------------------------------------------ the facade
\* static long long Time() { return time(0); }
Time ==
    /\ lastOp' = "Time"
    /\ lastRet' = TimeResult
    /\ outcome' = "returned"
    /\ genBefore' = holdrand
    /\ callRead' = time0
    /\ okAtCall' = clockOk
    /\ quiet' = TRUE
    /\ hasLast' = TRUE
    /\ lastTime' = lastRet'
    /\ hasPrev' = hasLast
    /\ prevTime' = lastTime
    /\ calm' = clockOk
    /\ steady' = (hasLast /\ calm /\ clockOk)
    /\ UNCHANGED << threadVars, holdrand, clockVars, genVars, runs,
                    randMaxSeen >>

\* TimeCast seeding the generator with the time it read (srand(time(0))), a
\* mutant of TimeCast.
TimeCast_seeding ==
    /\ lastOp' = "TimeCast"
    /\ lastRet' = TimeCastResult
    /\ outcome' = "returned"
    /\ genBefore' = holdrand
    /\ callRead' = time0
    /\ okAtCall' = clockOk
    /\ quiet' = TRUE
    /\ holdrand' = srand(Widen(TimeCastResult))
    /\ UNCHANGED << threadVars, clockVars, genVars, runs, randMaxSeen,
                    timeVars >>

\* static int TimeCast() { return time(0); }
TimeCast ==
    /\ lastOp' = "TimeCast"
    /\ lastRet' = TimeCastResult
    /\ outcome' = "returned"
    /\ genBefore' = holdrand
    /\ callRead' = time0
    /\ okAtCall' = clockOk
    /\ quiet' = TRUE
    /\ UNCHANGED << threadVars, holdrand, clockVars, genVars, runs,
                    randMaxSeen, timeVars >>

\* static void SRand(unsigned int s) { srand(s); }
SRand(s) ==
    /\ holdrand' = srand(s)
    /\ lastOp' = "SRand"
    /\ lastRet' = 0
    /\ outcome' = "returned"
    /\ genBefore' = holdrand
    /\ callRead' = Wide(0, 0)
    /\ okAtCall' = TRUE
    /\ seeded' = TRUE
    /\ seed' = s
    /\ draws' = << >>
    /\ quiet' = FALSE
    /\ UNCHANGED << threadVars, clockVars, watch, seenRun, seenAll, runs,
                    randMaxSeen, timeVars >>

\* static int Rand() { return rand(); }
Rand ==
    /\ Len(draws) < MaxDraws
    /\ holdrand' = rand_state(holdrand)
    /\ lastOp' = "Rand"
    /\ lastRet' = rand_value(holdrand')
    /\ outcome' = "returned"
    /\ genBefore' = holdrand
    /\ callRead' = Wide(0, 0)
    /\ okAtCall' = TRUE
    /\ draws' = Append(draws, lastRet')
    /\ seenRun' = IF Key \in watch THEN Record(seenRun, draws') ELSE seenRun
    /\ seenAll' = IF Key \in watch THEN Record(seenAll, draws') ELSE seenAll
    /\ UNCHANGED << threadVars, clockVars, seeded, seed, watch, runs, quiet,
                    randMaxSeen, timeVars >>

\* static int RandMax() { return RAND_MAX; }
RandMax ==
    /\ lastOp' = "RandMax"
    /\ lastRet' = RandMaxResult
    /\ outcome' = "returned"
    /\ genBefore' = holdrand
    /\ callRead' = Wide(0, 0)
    /\ okAtCall' = TRUE
    /\ quiet' = TRUE
    /\ randMaxSeen' = randMaxSeen \cup {lastRet'}
    /\ UNCHANGED << threadVars, holdrand, clockVars, genVars, runs, timeVars >>

\* ------------------------------------------------------------ the platform
\* A new run of the process: the runtime initialises the generator, and what
\* the caller observed within the old run is gone.
ProcessStart ==
    /\ runs < MaxRuns
    /\ runs' = runs + 1
    /\ holdrand' = crt_initial_state
    /\ lastOp' = "none"
    /\ lastRet' = 0
    /\ outcome' = "returned"
    /\ genBefore' = crt_initial_state
    /\ seeded' = FALSE
    /\ seed' = NoSeed
    /\ draws' = << >>
    /\ seenRun' = << >>
    /\ quiet' = FALSE
    /\ randMaxSeen' = {}
    /\ callRead' = Wide(0, 0)
    /\ okAtCall' = TRUE
    /\ hasLast' = FALSE
    /\ lastTime' = Wide(0, 0)
    /\ hasPrev' = FALSE
    /\ prevTime' = Wide(0, 0)
    /\ calm' = FALSE
    /\ steady' = FALSE
    /\ UNCHANGED << threadVars, clockVars, watch, seenAll >>

processVars == << threadVars, holdrand, lastOp, lastRet, outcome, genVars,
                  runs, quiet,
                  randMaxSeen, genBefore, callRead, okAtCall, hasLast,
                  lastTime, hasPrev, prevTime, steady >>

\* The wall clock moves on.
ClockAdvance ==
    /\ \E t \in Times : Less(now, t) /\ now' = t
    /\ UNCHANGED << clockOk, calm, processVars >>

\* The wall clock is set back (by the user or by a time service).
ClockSetBack ==
    /\ \E t \in Times : Less(t, now) /\ now' = t
    /\ calm' = FALSE
    /\ UNCHANGED << clockOk, processVars >>

\* The calendar time becomes unavailable.
ClockFail ==
    /\ clockOk
    /\ clockOk' = FALSE
    /\ UNCHANGED << now, calm, processVars >>

\* The calendar time is available again.
ClockRecover ==
    /\ ~clockOk
    /\ clockOk' = TRUE
    /\ UNCHANGED << now, calm, processVars >>

\* ------------------------------------------------------------ two threads
\* The facade takes no lock: a thread enters SRand or Rand whenever it is
\* idle.  A caller that serializes its calls enters only when no other thread
\* is inside a call.
MayEnter(t) ==
    /\ pc[t] = "idle"
    /\ calls < MaxCalls
    /\ serialized => \A u \in Threads : pc[u] = "idle"

singleVars == << clockVars, watch, seenRun, seenAll, runs, quiet, randMaxSeen,
                 callRead, okAtCall, timeVars, serialized >>

\* SRand(s) on thread t: srand(s) is one store to the generator state.
SRandBy(t, s) ==
    /\ MayEnter(t)
    /\ holdrand' = srand(s)
    /\ lastOp' = "SRand"
    /\ lastRet' = 0
    /\ outcome' = "returned"
    /\ genBefore' = holdrand
    /\ seeded' = TRUE
    /\ seed' = s
    /\ draws' = << >>
    /\ calls' = calls + 1
    /\ left' = holdrand'
    /\ UNCHANGED << singleVars, pc, reg, leftBefore, acted >>

\* A rand() that reads a state of its own, set up anew at every call, a
\* mutant of rand_load.
rand_load_fresh == crt_initial_state

\* The state rand() reads.
rand_load == holdrand

\* Rand() on thread t, first step: rand() reads the generator state.
RandLoad(t) ==
    /\ MayEnter(t)
    /\ Len(draws) < MaxDraws
    /\ reg' = [reg EXCEPT ![t] = rand_load]
    /\ pc' = [pc EXCEPT ![t] = "loaded"]
    /\ UNCHANGED << singleVars, holdrand, lastOp, lastRet, outcome, genBefore,
                    seeded, seed, draws, calls, left, leftBefore, acted >>

\* Second step: rand() writes the state that follows the one it read.
RandStore(t) ==
    /\ pc[t] = "loaded"
    /\ holdrand' = rand_state(reg[t])
    /\ pc' = [pc EXCEPT ![t] = "stored"]
    /\ genBefore' = reg[t]
    /\ UNCHANGED << singleVars, reg, lastOp, lastRet, outcome, seeded, seed,
                    draws, calls, left, leftBefore, acted >>

\* Third step: rand() returns (state >> 16) & RAND_MAX, of the state it wrote
\* (kept in a register) or of the state it finds (read again), as the
\* compiler chose; Rand() returns that value.
RandReturn(t) ==
    /\ pc[t] = "stored"
    /\ \E st \in {rand_state(reg[t]), holdrand} : lastRet' = rand_value(st)
    /\ left' = holdrand
    /\ lastOp' = "Rand"
    /\ outcome' = "returned"
    /\ draws' = Append(draws, lastRet')
    /\ pc' = [pc EXCEPT ![t] = "idle"]
    /\ calls' = calls + 1
    /\ leftBefore' = left
    /\ acted' = reg[t]
    /\ UNCHANGED << singleVars, holdrand, reg, genBefore, seeded, seed >>

\* ------------------------------------------------------------ specifications
\* One caller of the five operations; the clock may fail but stands still.
Next ==
    \/ Time
    \/ TimeCast
    \/ \E s \in Seeds : SRand(s)
    \/ Rand
    \/ RandMax
    \/ ProcessStart
    \/ ClockFail
    \/ ClockRecover

Spec == Init /\ [][Next]_vars

\* One caller of the operations that leave the generator alone, under a
\* clock that moves, is set back, fails and recovers.
NextTime ==
    \/ Time
    \/ TimeCast
    \/ RandMax
    \/ ProcessStart
    \/ ClockAdvance
    \/ ClockSetBack
    \/ ClockFail
    \/ ClockRecover

SpecTime == Init /\ [][NextTime]_vars

\* Two threads of one process in SRand and Rand, the caller serializing its
\* calls or not.
InitThreads ==
    /\ Start
    /\ watch = {NoSeed}
    /\ serialized \in BOOLEAN

NextThreads ==
    \/ \E t \in Threads, s \in Seeds : SRandBy(t, s)
    \/ \E t \in Threads : RandLoad(t)
    \/ \E t \in Threads : RandStore(t)
    \/ \E t \in Threads : RandReturn(t)

SpecThreads == InitThreads /\ [][NextThreads]_vars

\* ------------------------------------------------------------ claims
QuietOps == {"Time", "TimeCast", "RandMax"}

\* C1: every value Rand() returns, seeded or not, lies in 0..RandMax().
C1_RandWithinRandMax ==
    lastOp = "Rand" => (0 <= lastRet /\ lastRet <= RandMaxResult)

\* Rand() has returned its second value after SRand(2^32 - 1).
C1_Witness ==
    /\ lastOp = "Rand"
    /\ seeded /\ seed = Wide(65535, 65535)
    /\ Len(draws) = 2

\* C2: the values Rand() returns after SRand(s) are, position by position,
\* the values first observed after SRand(s) in this or any earlier run of the
\* process: the k-th value depends on s and k alone.
C2_SameSequenceAcrossRuns ==
    (seeded /\ watch = {seed}) => Agree(draws, seenAll)

\* A later run has drawn twice after SRand(s), and an earlier run drew three
\* times after SRand(s).
C2_Witness ==
    /\ runs >= 1 /\ lastOp = "Rand"
    /\ seeded /\ watch = {seed}
    /\ Len(draws) = 2 /\ Len(seenRun) = 2 /\ Len(seenAll) = 3

\* C3: within one process run, the values Rand() returns after SRand(s) are
\* the values returned after every earlier SRand(s), whatever calls came
\* between.
C3_ReseedingErasesHistory ==
    (seeded /\ watch = {seed}) => Agree(draws, seenRun)

\* SRand(s) was called again in the run after two or more draws that
\* followed an earlier SRand(s), and Rand() has returned once since.
C3_Witness ==
    /\ lastOp = "Rand"
    /\ seeded /\ watch = {seed}
    /\ Len(draws) = 1 /\ Len(seenRun) >= 2

\* C4: for one reading t of the clock (t as Time() returns it), TimeCast()
\* returns the signed 32-bit value congruent to t modulo 2^32: t itself when
\* t fits in 32 bits, and the wrapped value when t exceeds 2^31 - 1.
C4_TimeCastTruncates ==
    lastOp = "TimeCast" =>
        LET t == ToLongLong(callRead)
            r == Widen(lastRet)
        IN  /\ outcome = "returned"
            /\ -32768 <= Hi(r) /\ Hi(r) <= 32767
            /\ Lo(r) = Lo(t)
            /\ (Hi(r) - Hi(t)) % W16 = 0
            /\ (-32768 <= Hi(t) /\ Hi(t) <= 32767) => r = t
            /\ Hi(t) >= 32768 =>
                   r = Wide(((Hi(t) + 32768) % W16) - 32768, Lo(t))

\* TimeCast() has returned for the reading 2^31 (wrapped to -2^31).
C4_Witness ==
    /\ lastOp = "TimeCast" /\ okAtCall
    /\ callRead = Wide(32768, 0)
    /\ lastRet = (-32768) * W16

\* C5: within one process run RandMax() returns one value, and it is not
\* negative, whatever other calls are made.
C5_RandMaxStable ==
    /\ Cardinality(randMaxSeen) <= 1
    /\ \A v \in randMaxSeen : v >= 0

\* RandMax() has returned after draws that followed an SRand, and had
\* returned before.
C5_Witness ==
    /\ lastOp = "RandMax"
    /\ seeded /\ Len(draws) >= 2
    /\ hasLast
    /\ randMaxSeen # {}

\* C6 as stated: each Time() call returns at least what the previous Time()
\* call of the process returned.
C6_TimeNeverDecreases ==
    hasPrev => LessEq(prevTime, lastTime)

\* C6 as amended: each Time() call returns at least what the previous one
\* returned, provided the clock was available at both calls and was not set
\* back between them.
C6_TimeNonDecreasingWhileSteady ==
    (hasPrev /\ steady) => LessEq(prevTime, lastTime)

\* Two Time() calls under a steady clock that moved past 2^31 - 1 between them.
C6_Witness ==
    /\ lastOp = "Time"
    /\ hasPrev /\ steady
    /\ prevTime = Wide(32767, 65535)
    /\ Less(prevTime, lastTime)

\* C8: every operation returns normally; with the clock unavailable, Time()
\* and TimeCast() return time(0)'s failure value, -1, as it is, and the
\* generator state is what it was when the call was made.
C8_NoErrorOutcome ==
    /\ outcome = "returned"
    /\ (lastOp \in {"Time", "TimeCast"} /\ ~okAtCall) =>
           /\ holdrand = genBefore
           /\ lastOp = "Time" => lastRet = Wide(-1, 65535)
           /\ lastOp = "TimeCast" => lastRet = -1

\* TimeCast() has returned with the clock unavailable, after two draws.
C8_Witness ==
    /\ lastOp = "TimeCast" /\ ~okAtCall
    /\ Len(draws) = 2

\* C9: Time(), TimeCast() and RandMax() leave the generator state as they
\* found it, and a draw made after any of them is the draw first observed at
\* its position after the same seeding.
C9_QuietOpsKeepGenerator ==
    /\ lastOp \in QuietOps => holdrand = genBefore
    /\ (quiet /\ Key \in watch) => Agree(draws, seenAll)

\* A second draw after a seeding, with Time, TimeCast or RandMax called since
\* the seeding, at a position first observed in an earlier run.
C9_Witness ==
    /\ lastOp = "Rand" /\ quiet
    /\ Key \in watch
    /\ runs >= 1
    /\ Len(draws) = 2 /\ Len(seenAll) = 3

\* C10: the draws of a process that never called SRand are the same in every
\* run, and they are the draws that follow SRand(1).
C10_DefaultIsSeedOne ==
    (NoSeed \in watch /\ Key \in watch) => Agree(draws, seenAll)

\* A run that never called SRand has drawn twice, and an earlier run drew
\* three times after SRand(1) or before any SRand.
C10_Witness ==
    /\ lastOp = "Rand" /\ ~seeded
    /\ watch = {NoSeed, Wide(0, 1)}
    /\ runs >= 1
    /\ Len(draws) = 2 /\ Len(seenAll) = 3

====
